---- MODULE Spec2Model ----
(***************************************************************************)
(* The movie repository of internal/data/movies.go over the movies table   *)
(* of migrations/000001 and 000002.  Every repository method issues one    *)
(* SQL statement, which the store executes atomically, so each method is   *)
(* one action.  Callers are concurrent request handlers; what a caller     *)
(* keeps between two calls is the *Movie it got from Get.                  *)
(***************************************************************************)
EXTENDS Integers, Sequences, FiniteSets, TLC

VARIABLES
    movies,          \* the movies table: a set of rows
    movies_id_seq,   \* last value handed out by the bigserial sequence of movies.id
    now,             \* the store's clock, NOW()
    held,            \* per caller: id/version of the *Movie it got from Get
    assigned,        \* history: the ids Insert has returned so far, in order
    inserted,        \* history, per id: the Movie Insert was called with and
                     \* what it returned, until the row is updated or deleted
    last,            \* the last call: its arguments and what it returned
    race,            \* per caller of a race for one row: how far it is, what
                     \* it read and what its Update returned
    calls            \* per caller: the call it is in, the call's context and
                     \* what the call returned

vars == <<movies, movies_id_seq, now, held, assigned, inserted, last, race, calls>>

-----------------------------------------------------------------------------
(* Bounds of the model *)

MaxId == 2          \* Insert stops once the sequence reached MaxId
MaxVersion == 3     \* a successful Update needs a stored version below it
MaxClock == 2       \* the clock stops at MaxClock
MaxPage == 2        \* GetAll is called with Page in 1..MaxPage
MaxPageSize == 2    \* GetAll is called with PageSize in 1..MaxPageSize
MaxTotalRecords == 17       \* calculateMetadata is applied to totals up to it
MaxMetadataPageSize == 5    \* and to page sizes up to it

(* Program constants *)

MinReleaseYear == 1888      \* movies_release_date_check
MinGenres == 1              \* genres_length_check
MaxGenres == 5              \* genres_length_check
DefaultVersion == 1         \* version integer NOT NULL DEFAULT 1
TimeoutSeconds == 3         \* context.WithTimeout(..., 3*time.Second)

Callers == {"c1", "c2"}

\* The callers that race for one row.
Racers == {"c1", "c2", "c3"}

-----------------------------------------------------------------------------
(* Go values *)

\* A Go []string: nil, or a (possibly empty) sequence.
NilSlice == [isNil |-> TRUE, a |-> <<>>]
Slice(s) == [isNil |-> FALSE, a |-> s]

\* A time.Time as far as the store looks at it: the calendar year and the
\* time of day (0 is midnight).  The zero time.Time is year 1, midnight.
Time(y, c) == [year |-> y, clock |-> c]

\* The year the store's clock shows: one tick of the clock is one year here,
\* so a release date can be in the future at one call and not at a later one.
YearOf(t) == MinReleaseYear + t

\* The errors the methods return.
ErrNone == "nil"
ErrRecordNotFound == "ErrRecordNotFound"
ErrEditConflict == "ErrEditConflict"
ErrNotNull == "pq: not_null_violation"
ErrCheck == "pq: check_violation"

\* No *Movie.
NoMovie == [ID |-> 0, Version |-> 0, stale |-> FALSE]

-----------------------------------------------------------------------------
(* The caller-supplied fields of a Movie, as the callers of this model      *)
(* supply them.                                                             *)

Fields(t, y, g) ==
    [Title |-> t, Overview |-> "overview", Language |-> "en",
     ReleaseDate |-> y, Rating |-> 7, PosterURL |-> "poster",
     BackdropURL |-> "backdrop", Genres |-> g]

SixGenres == <<"Action", "Comedy", "Drama", "Horror", "SciFi", "War">>

\* Two movies the store accepts at any time of the model, one with an empty
\* genres slice whose release year is in the future until the clock ticks, one
\* with a nil genres slice, and one with six genres.
MovieInputs ==
    { Fields("Alien", Time(MinReleaseYear, 0), Slice(<<"Horror", "SciFi">>)),
      Fields("Aliens", Time(MinReleaseYear + 1, 1), Slice(<<"Action">>)),
      Fields("Alien", Time(MinReleaseYear + 2, 0), Slice(<<>>)),
      Fields("Alien", Time(MinReleaseYear + 1, 0), NilSlice),
      Fields("Aliens", Time(MinReleaseYear + 1, 0), Slice(SixGenres)) }

\* The ids callers ask for: 0 and -1 are not ids, MaxId + 1 is never assigned.
IdInputs == (-1) .. (MaxId + 1)

-----------------------------------------------------------------------------
(* The store: parameter encoding, column types and constraints *)

\* pq.Array(x).Value(): a nil slice is sent as NULL, any other as an array.
\* An SQL value is <<>> for NULL and <<v>> for the value v.
PqArray(s) == IF s.isNil THEN <<>> ELSE <<s.a>>

\* release_date is of type date: the time of day is dropped.
ToDate(t) == Time(t.year, 0)

\* array_length(genres, 1): NULL for an empty array.
ArrayLength(g) == IF Len(g) = 0 THEN <<>> ELSE <<Len(g)>>

\* x BETWEEN lo AND hi in SQL's three-valued logic.
Between(x, lo, hi) ==
    IF x = <<>> THEN "null"
    ELSE IF lo <= x[1] /\ x[1] <= hi THEN "true" ELSE "false"

\* A CHECK constraint is violated only when its expression is false.
CheckHolds(b) == b # "false"

\* NOT NULL of the genres column (the other columns are bound to Go strings,
\* numbers and times, which are never NULL).
NotNullHolds(f) == PqArray(f.Genres) # <<>>

\* movies_release_date_check
ReleaseDateCheck(f) ==
    CheckHolds(Between(<<ToDate(f.ReleaseDate).year>>, MinReleaseYear, YearOf(now)))

\* genres_length_check
GenresLengthCheck(f) ==
    CheckHolds(Between(ArrayLength(PqArray(f.Genres)[1]), MinGenres, MaxGenres))

\* The error the store raises for a row with these column values, or nil.
ConstraintError(f) ==
    IF ~NotNullHolds(f) THEN ErrNotNull
    ELSE IF ~ReleaseDateCheck(f) \/ ~GenresLengthCheck(f) THEN ErrCheck
    ELSE ErrNone

\* The columns an INSERT or UPDATE writes from the statement's parameters.
Columns(f) ==
    [title |-> f.Title, overview |-> f.Overview, language |-> f.Language,
     release_date |-> ToDate(f.ReleaseDate), rating |-> f.Rating,
     poster_url |-> f.PosterURL, backdrop_url |-> f.BackdropURL,
     genres |-> PqArray(f.Genres)[1]]

\* A row of movies.
Row(id, created, version, cols) ==
    [id |-> id, created_at |-> created, version |-> version, cols |-> cols]

\* Mutant of ScanMovie: poster_url and backdrop_url are scanned into each
\* other's field.
ScanMovieSwapsURLs(r) ==
    [ID |-> r.id, CreatedAt |-> r.created_at, Title |-> r.cols.title,
     Overview |-> r.cols.overview, Language |-> r.cols.language,
     ReleaseDate |-> r.cols.release_date, Rating |-> r.cols.rating,
     PosterURL |-> r.cols.backdrop_url, BackdropURL |-> r.cols.poster_url,
     Genres |-> Slice(r.cols.genres), Version |-> r.version]

\* Scan of a row into a Movie.
ScanMovie(r) ==
    [ID |-> r.id, CreatedAt |-> r.created_at, Title |-> r.cols.title,
     Overview |-> r.cols.overview, Language |-> r.cols.language,
     ReleaseDate |-> r.cols.release_date, Rating |-> r.cols.rating,
     PosterURL |-> r.cols.poster_url, BackdropURL |-> r.cols.backdrop_url,
     Genres |-> Slice(r.cols.genres), Version |-> r.version]

\* WHERE id = $1
RowsById(id) == {r \in movies : r.id = id}

\* Mutant of RowsByIdVersion: WHERE id = $9, the version is not compared.
RowsByIdAnyVersion(id, version) == {r \in movies : r.id = id}

\* WHERE id = $9 AND version = $10
RowsByIdVersion(id, version) == {r \in movies : r.id = id /\ r.version = version}

-----------------------------------------------------------------------------
(* What a call leaves in `last`: the method, the caller, the ID and Version *)
(* of the Movie (or the id) it was called with, the Movie's other fields    *)
(* (<<>> when the method takes no Movie), the error returned, the number of *)
(* statements sent to the store, and what Scan wrote into the caller's      *)
(* Movie (<<>> when Scan wrote nothing); and, as history, the table as it   *)
(* was when the call began.                                                 *)
Call(op, c, id, version, fields, err, roundTrips, scanned) ==
    [op |-> op, caller |-> c, id |-> id, version |-> version,
     fields |-> fields, err |-> err, roundTrips |-> roundTrips,
     scanned |-> scanned, before |-> movies]

\* A context: none, one made by WithTimeout whose deadline is `left` seconds
\* away ("running"), one whose deadline has passed ("done"), and one whose
\* cancel function was called ("released").
NoContext == [state |-> "none", left |-> 0]

\* Mutant of WithTimeout: the context has no deadline.
WithoutTimeout(seconds) == [state |-> "running", left |-> 0]

\* context.WithTimeout(context.Background(), 3*time.Second)
WithTimeout(seconds) == [state |-> "running", left |-> seconds]

\* Mutant of DeferredCancel: cancel is not called when the call returns.
NoDeferredCancel(ctx) == ctx

\* defer cancel(): runs on every return after the context was made.
DeferredCancel(ctx) == [state |-> "released", left |-> 0]

\* What a call to the store returns when its context is done: the context's
\* error, or the store's answer to the cancel request.
TimeoutErrors ==
    {"context deadline exceeded", "pq: canceling statement due to user request"}

ErrNoRows == "sql: no rows in result set"

\* Mutant of TranslateError: Get and Update take every error for sql.ErrNoRows.
TranslateAnyError(op, err) ==
    CASE op = "Get" -> ErrRecordNotFound
      [] op = "Update" -> ErrEditConflict
      [] OTHER -> err

\* What a method returns for an error of its call to the store: Get and Update
\* translate sql.ErrNoRows, every other error is passed on.
TranslateError(op, err) ==
    CASE op = "Get" /\ err = ErrNoRows -> ErrRecordNotFound
      [] op = "Update" /\ err = ErrNoRows -> ErrEditConflict
      [] OTHER -> err

\* A caller that is in no call.
Idle ==
    [at |-> "idle", op |-> "none", id |-> 0, m |-> NoMovie, f |-> <<>>,
     ctx |-> NoContext, cause |-> "none", err |-> ErrNone]

\* A caller of a race that has not yet read the row.
RaceStart == [at |-> "start", read |-> NoMovie, fields |-> <<>>, err |-> ErrNone]

Init ==
    /\ movies = {}
    /\ movies_id_seq = 0
    /\ now = 1
    /\ held = [c \in Callers |-> NoMovie]
    /\ assigned = <<>>
    /\ inserted = [id \in 1 .. MaxId |-> <<>>]
    /\ last = Call("none", "c1", 0, 0, <<>>, ErrNone, 0, <<>>)
    /\ race = [c \in Racers |-> RaceStart]
    /\ calls = [c \in Callers |-> Idle]

\* Time passes.
Tick ==
    /\ now < MaxClock
    /\ now' = now + 1
    /\ last' = Call("Tick", "c1", 0, 0, <<>>, ErrNone, 0, <<>>)
    /\ UNCHANGED <<movies, movies_id_seq, held, assigned, inserted>>

\* Mutant of NextVal: the id is one more than the largest id in the table.
NextValAfterMax(seq) ==
    1 + Cardinality({i \in 1 .. MaxId : \E r \in movies : r.id >= i})

\* nextval of the sequence behind id bigserial
NextVal(seq) == seq + 1

\* MovieModel.Insert of a new Movie with the fields f.  The id default takes
\* the next value of the sequence before the constraints are checked, so a
\* rejected row uses up an id.
Insert(c, f) ==
    /\ movies_id_seq < MaxId
    /\ LET id == NextVal(movies_id_seq)
           err == ConstraintError(f)
           row == Row(id, now, DefaultVersion, Columns(f))
       IN /\ movies_id_seq' = id
          /\ IF err = ErrNone
             THEN /\ movies' = movies \cup {row}
                  /\ assigned' = Append(assigned, row.id)
                  /\ inserted' = [inserted EXCEPT ![row.id] =
                                    <<[fields |-> f, ID |-> row.id,
                                       CreatedAt |-> row.created_at,
                                       Version |-> row.version]>>]
                  /\ last' = Call("Insert", c, 0, 0, <<f>>, ErrNone, 1,
                                  <<[ID |-> row.id, CreatedAt |-> row.created_at,
                                     Version |-> row.version]>>)
             ELSE /\ UNCHANGED <<movies, assigned, inserted>>
                  /\ last' = Call("Insert", c, 0, 0, <<f>>, err, 1, <<>>)
    /\ UNCHANGED <<now, held>>

\* Mutant of InvalidId: if id < 0
InvalidIdNegative(id) == id < 0

\* if id < 1 { return ErrRecordNotFound }
InvalidId(id) == id < 1

\* MovieModel.Get
Get(c, id) ==
    IF InvalidId(id)
    THEN /\ last' = Call("Get", c, id, 0, <<>>, ErrRecordNotFound, 0, <<>>)
         /\ UNCHANGED <<movies, movies_id_seq, now, held, assigned, inserted>>
    ELSE IF RowsById(id) = {}
    THEN /\ last' = Call("Get", c, id, 0, <<>>, ErrRecordNotFound, 1, <<>>)
         /\ UNCHANGED <<movies, movies_id_seq, now, held, assigned, inserted>>
    ELSE LET movie == ScanMovie(CHOOSE r \in RowsById(id) : TRUE)
         IN /\ last' = Call("Get", c, id, 0, <<>>, ErrNone, 1, <<movie>>)
            /\ held' = [held EXCEPT ![c] = [ID |-> movie.ID,
                                            Version |-> movie.Version,
                                            stale |-> FALSE]]
            /\ UNCHANGED <<movies, movies_id_seq, now, assigned, inserted>>

\* The Movies a caller passes to Update: the one it got from Get, or one it
\* made up, with an id the store never assigned.
UpdateInputs(c) ==
    {[ID |-> held[c].ID, Version |-> held[c].Version],
     [ID |-> MaxId + 1, Version |-> DefaultVersion]} \ {[ID |-> 0, Version |-> 0]}

\* What the callers hold after an UPDATE by c matched the row (id, version):
\* Scan overwrote the Version of the Movie c passed; every other held Movie of
\* that id was read before this update.
HeldAfterUpdate(c, id, version) ==
    [d \in DOMAIN held |->
        IF held[d].ID # id THEN held[d]
        ELSE IF d = c /\ held[d].Version = version /\ ~held[d].stale
        THEN [held[d] EXCEPT !.Version = version + 1]
        ELSE [held[d] EXCEPT !.stale = TRUE]]

\* Mutant of UpdatedRow: the version is not incremented.
UpdatedRowSameVersion(old, f) ==
    Row(old.id, old.created_at, old.version, Columns(f))

\* Mutant of UpdatedRow: version = version + 2
UpdatedRowSkipsVersion(old, f) ==
    Row(old.id, old.created_at, old.version + 2, Columns(f))

\* Mutant of UpdatedRow: created_at = NOW() is set too.
UpdatedRowTouchesCreatedAt(old, f) ==
    Row(old.id, now, old.version + 1, Columns(f))

\* SET title = $1, ..., genres = $8, version = version + 1
UpdatedRow(old, f) == Row(old.id, old.created_at, old.version + 1, Columns(f))

\* Mutant of UpdateError: sql.ErrNoRows becomes ErrRecordNotFound.
UpdateErrorNotFound(matched, f) ==
    IF matched = {} THEN ErrRecordNotFound ELSE ConstraintError(f)

\* The error of Update: sql.ErrNoRows, which QueryRowContext(...).Scan returns
\* when RETURNING has no row, becomes ErrEditConflict; any other is passed on.
UpdateError(matched, f) ==
    IF matched = {} THEN ErrEditConflict ELSE ConstraintError(f)

\* Mutant of UpdateScan: the Movie's version is raised whatever the statement
\* returned.
UpdateScanAlways(err, m, returning) == <<[Version |-> m.Version + 1]>>

\* Scan(&movie.Version) of the RETURNING row: what it writes into the caller's
\* Movie, which is nothing when the call returned an error.
UpdateScan(err, m, returning) ==
    IF err = ErrNone THEN <<[Version |-> returning[1]]>> ELSE <<>>

\* MovieModel.Update of the Movie m with its fields set to f
Update(c, m, f) ==
    LET matched == RowsByIdVersion(m.ID, m.Version)
        err == UpdateError(matched, f)
    IN /\ matched # {} => m.Version < MaxVersion
       /\ IF err = ErrNone
          THEN LET old == CHOOSE r \in matched : TRUE
                   new == UpdatedRow(old, f)
               IN /\ movies' = (movies \ {old}) \cup {new}
                  /\ held' = HeldAfterUpdate(c, m.ID, m.Version)
                  /\ inserted' = [inserted EXCEPT ![m.ID] = <<>>]
                  /\ last' = Call("Update", c, m.ID, m.Version, <<f>>, ErrNone, 1,
                                  UpdateScan(err, m, <<new.version>>))
          ELSE /\ last' = Call("Update", c, m.ID, m.Version, <<f>>, err, 1,
                                UpdateScan(err, m, <<>>))
               /\ UNCHANGED <<movies, held, inserted>>
       /\ UNCHANGED <<movies_id_seq, now, assigned>>

\* Mutant of DeleteError: the affected-row count is not looked at.
DeleteErrorIgnoresCount(rowsAffected) == ErrNone

\* if rowsAffected == 0 { return ErrRecordNotFound }
DeleteError(rowsAffected) ==
    IF rowsAffected = 0 THEN ErrRecordNotFound ELSE ErrNone

\* MovieModel.Delete
Delete(c, id) ==
    IF InvalidId(id)
    THEN /\ last' = Call("Delete", c, id, 0, <<>>, ErrRecordNotFound, 0, <<>>)
         /\ UNCHANGED <<movies, movies_id_seq, now, held, assigned, inserted>>
    ELSE LET rowsAffected == Cardinality(RowsById(id))
         IN /\ movies' = movies \ RowsById(id)
            /\ last' = Call("Delete", c, id, 0, <<>>,
                            DeleteError(rowsAffected), 1, <<>>)
            /\ inserted' = [i \in DOMAIN inserted |->
                               IF i = id THEN <<>> ELSE inserted[i]]
            /\ UNCHANGED <<movies_id_seq, now, held, assigned>>

-----------------------------------------------------------------------------
(* Filters and Metadata (internal/data/filters.go) *)

SortSafelist == {"id", "title", "-id", "-title"}

\* strings.TrimLeft(sort, "-") and strings.HasPrefix(sort, "-") on the sort
\* values of this model
TrimMinus(sort) ==
    CASE sort = "-id" -> "id"
      [] sort = "-title" -> "title"
      [] sort = "-runtime" -> "runtime"
      [] OTHER -> sort

HasMinus(sort) == sort \in {"-id", "-title", "-runtime"}

SortInputs == {"id", "title", "-title", "runtime", "-runtime"}

\* Page 0 is what an unvalidated request can carry.
PageInputs == 0 .. MaxPage
PageSizeInputs == 1 .. MaxPageSize

FiltersInputs ==
    [Page : PageInputs, PageSize : PageSizeInputs, Sort : SortInputs,
     SortSafelist : {SortSafelist}]

PageMax == 10000000
PageSizeMax == 100

\* Filters.validate: the fields it records a violation for.
ValidateFilters(f) ==
    (IF 1 <= f.Page /\ f.Page <= PageMax THEN {} ELSE {"page"})
    \cup (IF 1 <= f.PageSize /\ f.PageSize <= PageSizeMax THEN {} ELSE {"page_size"})
    \cup (IF f.Sort \in f.SortSafelist THEN {} ELSE {"sort"})

\* Filters.sortColumn: <<column>>, or <<>> when it panics.
sortColumn(f) == IF f.Sort \in f.SortSafelist THEN <<TrimMinus(f.Sort)>> ELSE <<>>

\* Filters.sortDirection
sortDirection(f) == IF HasMinus(f.Sort) THEN "DESC" ELSE "ASC"

\* Filters.limit and Filters.offset
limit(f) == f.PageSize
offset(f) == (f.Page - 1) * f.PageSize

ZeroMetadata ==
    [CurrentPage |-> 0, PageSize |-> 0, FirstPage |-> 0, LastPage |-> 0,
     TotalRecords |-> 0]

\* Mutant of calculateMetadata: the last page is totalRecords / pageSize,
\* rounded down.
calculateMetadataRoundsDown(totalRecords, page, pageSize) ==
    IF totalRecords = 0 THEN ZeroMetadata
    ELSE [CurrentPage |-> page, PageSize |-> pageSize, FirstPage |-> 1,
          LastPage |-> totalRecords \div pageSize,
          TotalRecords |-> totalRecords]

\* calculateMetadata
calculateMetadata(totalRecords, page, pageSize) ==
    IF totalRecords = 0 THEN ZeroMetadata
    ELSE [CurrentPage |-> page, PageSize |-> pageSize, FirstPage |-> 1,
          LastPage |-> (totalRecords + pageSize - 1) \div pageSize,
          TotalRecords |-> totalRecords]

-----------------------------------------------------------------------------
(* The query of GetAll *)

\* to_tsvector('simple', text) and plainto_tsquery('simple', text): the
\* lower-cased words of the texts of this model.
Lexemes(text) ==
    CASE text = "Alien" -> {"alien"}
      [] text = "alien" -> {"alien"}
      [] text = "Aliens" -> {"aliens"}
      [] OTHER -> {}

\* to_tsvector('simple', title) @@ plainto_tsquery('simple', $1) OR $1 = ''
\* (a query without lexemes matches nothing)
TitleMatches(r, title) ==
    \/ title = ""
    \/ Lexemes(title) # {} /\ Lexemes(title) \subseteq Lexemes(r.cols.title)

Elems(a) == {a[i] : i \in 1 .. Len(a)}

\* genres @> $2 OR $2 = '{}', with $2 = <<>> for NULL: neither side is true of
\* NULL, and WHERE keeps only the rows whose condition is true.
GenresMatch(r, g) ==
    /\ g # <<>>
    /\ Elems(g[1]) \subseteq Elems(r.cols.genres) \/ g[1] = <<>>

TitleInputs == {"", "alien"}
GenresInputs == {NilSlice, Slice(<<>>), Slice(<<"Horror">>)}

\* The rows the WHERE clause keeps.
Matching(title, genres) ==
    {r \in movies : TitleMatches(r, title) /\ GenresMatch(r, PqArray(genres))}

\* The order of text values of this model under the column's collation.
TextRank(t) == IF t = "Alien" THEN 1 ELSE 2

SortKey(r, column) == IF column = "id" THEN r.id ELSE TextRank(r.cols.title)

\* ORDER BY column direction, id ASC: q comes before r.
ComesBefore(q, r, column, direction) ==
    \/ direction = "ASC" /\ SortKey(q, column) < SortKey(r, column)
    \/ direction = "DESC" /\ SortKey(q, column) > SortKey(r, column)
    \/ SortKey(q, column) = SortKey(r, column) /\ q.id < r.id

\* The rows of rs in that order.
Ordered(rs, column, direction) ==
    [i \in 1 .. Cardinality(rs) |->
        CHOOSE r \in rs :
            Cardinality({q \in rs : ComesBefore(q, r, column, direction)}) = i - 1]

\* LIMIT $3 OFFSET $4 of an ordered result
Window(rows, lim, off) ==
    [i \in 1 .. (IF Len(rows) - off < lim
                 THEN (IF Len(rows) - off < 0 THEN 0 ELSE Len(rows) - off)
                 ELSE lim) |-> rows[off + i]]

ErrPanic == "panic: unsafe sort parameter"
ErrOffset == "pq: OFFSET must not be negative"

\* What GetAll leaves in `last`: as a call of the other methods does, and its
\* arguments, the column in the ORDER BY of the statement it sent (<<>> when
\* it sent none), and the Movies and Metadata it returned.
CallGetAll(c, title, genres, filters, err, roundTrips, orderBy, result, metadata) ==
    [op |-> "GetAll", caller |-> c, id |-> 0, version |-> 0, fields |-> <<>>,
     err |-> err, roundTrips |-> roundTrips, scanned |-> <<>>,
     before |-> movies, title |-> title, genres |-> genres,
     filters |-> filters, orderBy |-> orderBy, movies |-> result,
     metadata |-> metadata]

\* Mutant of QueryOrderBy: the sort value goes into the statement unchecked.
QueryOrderByUnchecked(filters) == <<TrimMinus(filters.Sort)>>

\* The column fmt.Sprintf puts into ORDER BY %s %s: filters.sortColumn(), which
\* panics (<<>>) before the statement exists.
QueryOrderBy(filters) == sortColumn(filters)

\* What can go wrong between GetAll and the store once the statement is sent:
\* nothing, QueryContext fails, Scan of a row fails, or the iteration stops
\* with an error that rows.Err reports.
StoreFaults == {"none", "exec", "scan", "rows"}

ErrExec == "pq: the statement failed"
ErrScan == "sql: Scan error"
ErrRows == "driver: bad connection"

\* Mutant of ResultOnError: the movies appended so far are returned with the
\* error.
ResultOnErrorPartial(read) == Slice(read)

\* return nil, Metadata{}, err: the movies appended so far are dropped.
ResultOnError(read) == NilSlice

\* MovieModel.GetAll
GetAll(c, title, genres, filters, fault) ==
    /\ LET orderBy == QueryOrderBy(filters)
       IN IF orderBy = <<>>
          THEN /\ fault = "none"
               /\ last' = CallGetAll(c, title, genres, filters, ErrPanic, 0, <<>>,
                                     NilSlice, ZeroMetadata)
          ELSE IF offset(filters) < 0
          THEN /\ fault = "none"
               /\ last' = CallGetAll(c, title, genres, filters, ErrOffset, 1,
                                     orderBy, ResultOnError(<<>>), ZeroMetadata)
          ELSE IF fault = "exec"
          THEN last' = CallGetAll(c, title, genres, filters, ErrExec, 1,
                                  orderBy, ResultOnError(<<>>), ZeroMetadata)
          ELSE LET matching == Matching(title, genres)
                   rows == Window(Ordered(matching, orderBy[1],
                                          sortDirection(filters)),
                                  limit(filters), offset(filters))
                   read == [i \in 1 .. Len(rows) |-> ScanMovie(rows[i])]
                   \* count(*) OVER() is a column of each row that is returned
                   totalRecords == IF Len(rows) = 0 THEN 0
                                   ELSE Cardinality(matching)
               IN CASE fault = "scan" ->
                         \* Scan of row k fails after k - 1 movies were appended
                         \E k \in 1 .. Len(rows) :
                            last' = CallGetAll(c, title, genres, filters, ErrScan,
                                      1, orderBy,
                                      ResultOnError(SubSeq(read, 1, k - 1)),
                                      ZeroMetadata)
                    [] fault = "rows" ->
                         \* rows.Next gives up after k rows
                         \E k \in 0 .. Len(rows) :
                            last' = CallGetAll(c, title, genres, filters, ErrRows,
                                      1, orderBy,
                                      ResultOnError(SubSeq(read, 1, k)),
                                      ZeroMetadata)
                    [] OTHER ->
                         last' = CallGetAll(c, title, genres, filters, ErrNone, 1,
                                   orderBy, Slice(read),
                                   calculateMetadata(totalRecords, filters.Page,
                                                     filters.PageSize))
    /\ UNCHANGED <<movies, movies_id_seq, now, held, assigned, inserted>>

Next ==
    \/ Tick /\ UNCHANGED <<race, calls>>
    \/ \E c \in Callers, f \in MovieInputs : Insert(c, f) /\ UNCHANGED <<race, calls>>
    \/ \E c \in Callers, id \in IdInputs : Get(c, id) /\ UNCHANGED <<race, calls>>
    \/ \E c \in Callers, f \in MovieInputs :
          \E m \in UpdateInputs(c) : Update(c, m, f) /\ UNCHANGED <<race, calls>>
    \/ \E c \in Callers, id \in IdInputs : Delete(c, id) /\ UNCHANGED <<race, calls>>

Spec == Init /\ [][Next]_vars

\* The repository under queries: one caller fills the table with movies the
\* store accepts, empties it and calls GetAll.
NextQuery ==
    \/ \E f \in {g \in MovieInputs : ConstraintError(g) = ErrNone} :
          Insert("c1", f) /\ UNCHANGED <<race, calls>>
    \/ \E id \in 1 .. MaxId : Delete("c1", id) /\ UNCHANGED <<race, calls>>
    \/ \E title \in TitleInputs, genres \in GenresInputs, filters \in FiltersInputs :
          GetAll("c1", title, genres, filters, "none") /\ UNCHANGED <<race, calls>>

SpecQuery == Init /\ [][NextQuery]_vars

\* The filters of the queries made while the store may fail: every page and
\* page size, in the order of the ids.
FaultFiltersInputs == {f \in FiltersInputs : f.Sort = "id"}

\* The repository under queries while the store or the connection may fail
\* during any of them.
NextFaults ==
    \/ \E f \in {g \in MovieInputs : ConstraintError(g) = ErrNone} :
          Insert("c1", f) /\ UNCHANGED <<race, calls>>
    \/ \E id \in 1 .. MaxId : Delete("c1", id) /\ UNCHANGED <<race, calls>>
    \/ \E title \in TitleInputs, genres \in GenresInputs,
          filters \in FaultFiltersInputs, fault \in StoreFaults :
          GetAll("c1", title, genres, filters, fault) /\ UNCHANGED <<race, calls>>

SpecFaults == Init /\ [][NextFaults]_vars

\* calculateMetadata applied to a total, a page and a page size; `last` keeps
\* the arguments and the Metadata returned.
CalculateMetadata(totalRecords, page, pageSize) ==
    /\ last' = [op |-> "calculateMetadata", caller |-> "c1",
                totalRecords |-> totalRecords, page |-> page,
                pageSize |-> pageSize, before |-> movies,
                metadata |-> calculateMetadata(totalRecords, page, pageSize)]
    /\ UNCHANGED <<movies, movies_id_seq, now, held, assigned, inserted, race,
                   calls>>

\* calculateMetadata on its own, over every total up to MaxTotalRecords, every
\* page up to MaxPage (and page 0) and every page size up to
\* MaxMetadataPageSize.
NextMetadata ==
    \E totalRecords \in 0 .. MaxTotalRecords, page \in 0 .. MaxPage,
       pageSize \in 1 .. MaxMetadataPageSize :
        CalculateMetadata(totalRecords, page, pageSize)

SpecMetadata == Init /\ [][NextMetadata]_vars

\* The callers of Racers race for a row: each reads it with Get and then calls
\* Update with the Movie it read, with fields of its own, in any
\* interleaving; when all are done, they may race again.
InitRace ==
    /\ movies = {}
    /\ movies_id_seq = 0
    /\ now = 1
    /\ held = [c \in Racers |-> NoMovie]
    /\ assigned = <<>>
    /\ inserted = [id \in 1 .. MaxId |-> <<>>]
    /\ last = Call("none", "c1", 0, 0, <<>>, ErrNone, 0, <<>>)
    /\ race = [c \in Racers |-> RaceStart]
    /\ calls = [c \in Callers |-> Idle]

\* The row of the race is inserted.
RaceInsert(f) ==
    /\ movies = {}
    /\ Insert("c1", f)
    /\ UNCHANGED <<race, calls>>

\* Caller c reads a row.
RaceGet(c, id) ==
    /\ race[c].at = "start"
    /\ RowsById(id) # {}
    /\ Get(c, id)
    /\ race' = [race EXCEPT ![c] =
                  [at |-> "got",
                   read |-> [ID |-> held'[c].ID, Version |-> held'[c].Version],
                   fields |-> <<>>, err |-> ErrNone]]
    /\ UNCHANGED calls

\* Caller c calls Update with the Movie it read and the fields f.
RaceUpdate(c, f) ==
    /\ race[c].at = "got"
    /\ Update(c, [ID |-> held[c].ID, Version |-> held[c].Version], f)
    /\ race' = [race EXCEPT ![c] =
                  [at |-> "done", read |-> race[c].read, fields |-> <<f>>,
                   err |-> last'.err]]
    /\ UNCHANGED calls

\* All callers are done and start over.
RaceAgain ==
    /\ \A c \in Racers : race[c].at = "done"
    /\ race' = [c \in Racers |-> RaceStart]
    /\ last' = Call("none", "c1", 0, 0, <<>>, ErrNone, 0, <<>>)
    /\ UNCHANGED <<movies, movies_id_seq, now, held, assigned, inserted, calls>>

NextRace ==
    \/ \E f \in {g \in MovieInputs : ConstraintError(g) = ErrNone} : RaceInsert(f)
    \/ \E c \in Racers, id \in 1 .. MaxId : RaceGet(c, id)
    \/ \E c \in Racers, f \in MovieInputs : RaceUpdate(c, f)
    \/ RaceAgain

SpecRace == InitRace /\ [][NextRace]_vars

-----------------------------------------------------------------------------
(* The methods in time: a call makes its context, sends its statement and   *)
(* waits; the store answers, or the deadline of the context passes and the  *)
(* call to the store is given up.  The store is free never to answer.       *)

\* The calls of this part: an Insert and an Update that the store accepts, a
\* Get and a Delete of a stored and of an invalid id, and a GetAll of the
\* first page.
TimedFields == Fields("Alien", Time(MinReleaseYear, 0), Slice(<<"Horror">>))
TimedFilters ==
    [Page |-> 1, PageSize |-> 1, Sort |-> "id", SortSafelist |-> SortSafelist]

TimedCalls(c) ==
    {[op |-> "Insert", id |-> 0, m |-> NoMovie, f |-> <<TimedFields>>]}
    \cup {[op |-> o, id |-> i, m |-> NoMovie, f |-> <<>>] :
             o \in {"Get", "Delete"}, i \in {0, 1}}
    \cup {[op |-> "Update", id |-> 0, m |-> held[c], f |-> <<TimedFields>>]}
    \cup {[op |-> "GetAll", id |-> 0, m |-> NoMovie, f |-> <<>>]}

\* Caller c enters a method.  Get and Delete of an id below 1 return before a
\* context is made; every other call makes its context and sends its
\* statement.
Begin(c, a) ==
    /\ calls[c].at \in {"idle", "returned"}
    /\ IF a.op \in {"Get", "Delete"} /\ InvalidId(a.id)
       THEN /\ \/ a.op = "Get" /\ Get(c, a.id)
               \/ a.op = "Delete" /\ Delete(c, a.id)
            /\ calls' = [calls EXCEPT ![c] =
                           [at |-> "returned", op |-> a.op, id |-> a.id,
                            m |-> a.m, f |-> a.f, ctx |-> NoContext,
                            cause |-> "answer", err |-> last'.err]]
       ELSE /\ calls' = [calls EXCEPT ![c] =
                           [at |-> "waiting", op |-> a.op, id |-> a.id,
                            m |-> a.m, f |-> a.f,
                            ctx |-> WithTimeout(TimeoutSeconds),
                            cause |-> "none", err |-> ErrNone]]
            /\ UNCHANGED <<movies, movies_id_seq, now, held, assigned,
                           inserted, last>>
    /\ UNCHANGED race

\* The store executes the statement of c's call and answers; the method
\* returns what it makes of the answer, and the deferred cancel runs.
Answer(c) ==
    /\ calls[c].at = "waiting"
    /\ \/ calls[c].op = "Insert" /\ Insert(c, calls[c].f[1])
       \/ calls[c].op = "Get" /\ Get(c, calls[c].id)
       \/ calls[c].op = "Update"
             /\ Update(c, [ID |-> calls[c].m.ID, Version |-> calls[c].m.Version],
                       calls[c].f[1])
       \/ calls[c].op = "Delete" /\ Delete(c, calls[c].id)
       \/ calls[c].op = "GetAll"
             /\ GetAll(c, "", Slice(<<>>), TimedFilters, "none")
    /\ calls' = [calls EXCEPT ![c] =
                   [@ EXCEPT !.at = "returned",
                             !.ctx = DeferredCancel(calls[c].ctx),
                             !.cause = "answer", !.err = last'.err]]
    /\ UNCHANGED race

\* A second passes for the context of c's call; when none is left, the
\* context is done.
Second(c) ==
    /\ calls[c].at = "waiting"
    /\ calls[c].ctx.state = "running"
    /\ calls[c].ctx.left > 0
    /\ calls' = [calls EXCEPT ![c].ctx =
                   IF calls[c].ctx.left = 1
                   THEN [state |-> "done", left |-> 0]
                   ELSE [state |-> "running", left |-> calls[c].ctx.left - 1]]
    /\ UNCHANGED <<movies, movies_id_seq, now, held, assigned, inserted, last,
                   race>>

\* The context of c's call is done: the call to the store is given up and
\* returns an error, the method returns what it makes of it, and the deferred
\* cancel runs.
Abort(c) ==
    /\ calls[c].at = "waiting"
    /\ calls[c].ctx.state = "done"
    /\ \E e \in TimeoutErrors :
          calls' = [calls EXCEPT ![c] =
                      [@ EXCEPT !.at = "returned",
                                !.ctx = DeferredCancel(calls[c].ctx),
                                !.cause = "timeout",
                                !.err = TranslateError(calls[c].op, e)]]
    /\ UNCHANGED <<movies, movies_id_seq, now, held, assigned, inserted, last,
                   race>>

\* The caller whose calls are followed in time.
TimedCallers == {"c1"}

NextTimeout ==
    \/ \E c \in TimedCallers : \E a \in TimedCalls(c) : Begin(c, a)
    \/ \E c \in TimedCallers : Answer(c)
    \/ \E c \in TimedCallers : Second(c)
    \/ \E c \in TimedCallers : Abort(c)

\* Time passes and a call whose context is done is given up; nothing makes
\* the store answer.
SpecTimeout ==
    /\ Init
    /\ [][NextTimeout]_vars
    /\ \A c \in TimedCallers : WF_vars(Second(c)) /\ WF_vars(Abort(c))

-----------------------------------------------------------------------------
(* Properties of MovieModel.Update, Get, Delete and Insert, checked under   *)
(* Spec.  `last` describes the call that led to the current state and       *)
(* last.before is the table as that call found it.                          *)

\* The rows with this id in the table the last call found.
BeforeById(id) == {r \in last.before : r.id = id}

\* The caller of the last call holds the Movie the call was made with, and an
\* Update of that id has succeeded since the caller read it.
LastCallerIsStale ==
    /\ held[last.caller].ID = last.id
    /\ held[last.caller].Version = last.version
    /\ held[last.caller].stale

\* C1: an Update carrying the version a caller read, after another Update of
\* the same id succeeded, fails with ErrEditConflict and leaves the table as
\* it was, the row's version included.
C1_StaleUpdateIsEditConflict ==
    (last.op = "Update" /\ LastCallerIsStale)
        => last.err = ErrEditConflict /\ movies = last.before

\* C1 happens: a stale Update was refused while the row is still stored, at a
\* later version.
C1_Witness ==
    /\ last.op = "Update"
    /\ LastCallerIsStale
    /\ last.err = ErrEditConflict
    /\ \E r \in movies : r.id = last.id /\ r.version > last.version

\* The Update of the last call was made with the id and the version of a
\* stored row.
UpdateOfCurrentVersion ==
    /\ last.op = "Update"
    /\ \E r \in last.before : r.id = last.id /\ r.version = last.version

\* The last Update succeeded as C2 says: the row has the old version + 1 and
\* the supplied fields, and the caller's Movie has the new stored version.
UpdateSucceeded ==
    /\ last.err = ErrNone
    /\ last.scanned = <<[Version |-> last.version + 1]>>
    /\ \E r \in movies :
          /\ r.id = last.id
          /\ r.version = last.version + 1
          /\ r.cols.title = last.fields[1].Title
          /\ r.cols.overview = last.fields[1].Overview
          /\ r.cols.language = last.fields[1].Language
          /\ r.cols.release_date.year = last.fields[1].ReleaseDate.year
          /\ r.cols.rating = last.fields[1].Rating
          /\ r.cols.poster_url = last.fields[1].PosterURL
          /\ r.cols.backdrop_url = last.fields[1].BackdropURL
          /\ r.cols.genres = last.fields[1].Genres.a
    /\ \A r \in movies : r.id = last.id => r.version = last.version + 1

\* C2 as stated: every Update whose id exists and whose version is the stored
\* one succeeds.
C2_Original == UpdateOfCurrentVersion => UpdateSucceeded

\* The fields of the last call pass the constraints of the table: genres is
\* not nil and has at most MaxGenres elements, and the release year is between
\* MinReleaseYear and the current year.
FieldsPassConstraints ==
    /\ ~last.fields[1].Genres.isNil
    /\ Len(last.fields[1].Genres.a) <= MaxGenres
    /\ last.fields[1].ReleaseDate.year >= MinReleaseYear
    /\ last.fields[1].ReleaseDate.year <= YearOf(now)

\* C2 (amended): every Update whose id exists, whose version is the stored
\* one and whose fields pass the constraints of the table succeeds: the stored
\* version becomes the old version + 1, the stored fields the supplied ones,
\* and the caller's version the new stored version.
C2_CurrentVersionUpdateSucceeds ==
    (UpdateOfCurrentVersion /\ FieldsPassConstraints) => UpdateSucceeded

\* C2 happens: an Update changed the title of a row and raised its version.
C2_Witness ==
    /\ UpdateOfCurrentVersion
    /\ FieldsPassConstraints
    /\ last.err = ErrNone
    /\ \E q \in last.before, r \in movies :
          /\ q.id = last.id /\ r.id = last.id
          /\ q.cols.title # r.cols.title
          /\ r.version = q.version + 1

C4_InvalidIdIsNotFound ==
    (last.op \in {"Get", "Delete"} /\ last.id <= 0)
        => /\ last.err = ErrRecordNotFound
           /\ last.roundTrips = 0
           /\ movies = last.before

\* C4 happens: Delete of id 0 on a table that holds rows.
C4_Witness ==
    /\ last.op = "Delete"
    /\ last.id = 0
    /\ last.err = ErrRecordNotFound
    /\ movies # {}

\* C5: a successful Insert adds exactly one row and gives the caller's Movie
\* an id >= 1 that Insert never returned before, a created_at that is not the
\* zero time, and version 1.
C5_InsertAssignsFreshId ==
    /\ \A i, j \in 1 .. Len(assigned) : i # j => assigned[i] # assigned[j]
    /\ (last.op = "Insert" /\ last.err = ErrNone)
         => /\ Len(last.scanned) = 1
            /\ last.scanned[1].ID >= 1
            /\ last.scanned[1].ID = assigned[Len(assigned)]
            /\ last.scanned[1].CreatedAt # 0
            /\ last.scanned[1].Version = 1
            /\ BeforeById(last.scanned[1].ID) = {}
            /\ last.before \subseteq movies
            /\ Cardinality(movies) = Cardinality(last.before) + 1
            /\ \E r \in movies \ last.before :
                  /\ r.id = last.scanned[1].ID
                  /\ r.created_at = last.scanned[1].CreatedAt
                  /\ r.version = last.scanned[1].Version

\* C5 happens: Insert succeeded after a row with a smaller id was deleted.
C5_Witness ==
    /\ last.op = "Insert"
    /\ last.err = ErrNone
    /\ Len(assigned) = 2
    /\ Cardinality(movies) = 1

\* C6: Delete of an id >= 1 returns ErrRecordNotFound and leaves the table as
\* it was when no row has the id, and otherwise returns nil and removes that
\* row and no other.
C6_DeleteRemovesExactlyThatRow ==
    (last.op = "Delete" /\ last.id >= 1)
        => IF BeforeById(last.id) = {}
           THEN last.err = ErrRecordNotFound /\ movies = last.before
           ELSE /\ last.err = ErrNone
                /\ movies = {r \in last.before : r.id # last.id}
                /\ Cardinality(movies) = Cardinality(last.before) - 1

\* C6 happens: Delete removed one of two rows.
C6_Witness ==
    /\ last.op = "Delete"
    /\ last.err = ErrNone
    /\ Cardinality(last.before) = 2
    /\ Cardinality(movies) = 1

\* C10: the stored version of an id is at least 1, and from one call to the
\* next it stays, or grows by exactly 1 through a successful Update of that
\* id; a row that appears starts at version 1 under an id no row had.
C10_VersionGrowsByOneOnUpdate ==
    \A r \in movies :
        /\ r.version >= 1
        /\ \A q \in last.before : q.id = r.id =>
              \/ r.version = q.version
              \/ /\ r.version = q.version + 1
                 /\ last.op = "Update" /\ last.err = ErrNone /\ last.id = r.id
        /\ BeforeById(r.id) = {} =>
              /\ r.version = 1
              /\ last.op = "Insert"
              /\ \A i \in 1 .. Len(assigned) - 1 : assigned[i] # r.id

\* C10 happens: two successful Updates took a row to version 3.
C10_Witness ==
    /\ last.op = "Update"
    /\ last.err = ErrNone
    /\ \E r \in movies : r.id = last.id /\ r.version = 3

\* The last call was a Get that returned the Movie of an id whose row is as
\* Insert wrote it: no Update has changed it and no Delete has removed it.
GetOfInsertedMovie ==
    /\ last.op = "Get"
    /\ last.err = ErrNone
    /\ last.id \in DOMAIN inserted
    /\ inserted[last.id] # <<>>

\* The Movie Get returned carries the id, created_at and version Insert
\* returned, and the fields Insert was called with other than the release date.
GetReturnsInsertedButDate ==
    LET got == last.scanned[1]
        put == inserted[last.id][1]
    IN /\ got.ID = put.ID
       /\ got.CreatedAt = put.CreatedAt
       /\ got.Version = put.Version
       /\ got.Title = put.fields.Title
       /\ got.Overview = put.fields.Overview
       /\ got.Language = put.fields.Language
       /\ got.Rating = put.fields.Rating
       /\ got.PosterURL = put.fields.PosterURL
       /\ got.BackdropURL = put.fields.BackdropURL
       /\ got.Genres.a = put.fields.Genres.a

\* C13 as stated: a Get of an inserted movie that was not updated or deleted
\* since returns every caller-supplied field as it was inserted, the release
\* date included, and the id, created_at and version Insert returned.
C13_Original ==
    GetOfInsertedMovie
        => /\ GetReturnsInsertedButDate
           /\ last.scanned[1].ReleaseDate = inserted[last.id][1].fields.ReleaseDate

\* C13 (amended): a Get of an inserted movie that was not updated or deleted
\* since returns the id, created_at and version Insert returned and every
\* caller-supplied field as it was inserted, except that the release date
\* comes back as the calendar date of the inserted one, at midnight.
C13_RoundTripUpToTimeOfDay ==
    GetOfInsertedMovie
        => /\ GetReturnsInsertedButDate
           /\ last.scanned[1].ReleaseDate.year
                 = inserted[last.id][1].fields.ReleaseDate.year
           /\ last.scanned[1].ReleaseDate.clock = 0

\* C13 happens: Get returned a movie that was inserted with a release date
\* that has a time of day, after another row was updated.
C13_Witness ==
    /\ GetOfInsertedMovie
    /\ inserted[last.id][1].fields.ReleaseDate.clock # 0
    /\ \E r \in movies : r.id # last.id /\ r.version > 1

\* C14: every stored movie has between MinGenres and MaxGenres genres, and an
\* Insert, or an Update of the stored version of a row, whose genres are fewer
\* or more fails with a constraint error of the store and leaves the table as
\* it was.
C14_StoredGenresLengthInRange ==
    /\ \A r \in movies :
          MinGenres <= Len(r.cols.genres) /\ Len(r.cols.genres) <= MaxGenres
    /\ ( /\ last.op = "Insert" \/ UpdateOfCurrentVersion
         /\ \/ Len(last.fields[1].Genres.a) < MinGenres
            \/ Len(last.fields[1].Genres.a) > MaxGenres )
        => last.err \in {ErrCheck, ErrNotNull} /\ movies = last.before

\* C17: a row keeps its id and created_at as long as it is stored; an Update,
\* successful or not, creates no row and removes none, and leaves every row
\* but the one whose id and version it matched as it was.
C17_UpdateKeepsIdAndCreatedAt ==
    /\ \A q \in last.before, r \in movies :
          r.id = q.id => r.created_at = q.created_at
    /\ last.op = "Update"
          => /\ {r.id : r \in movies} = {q.id : q \in last.before}
             /\ Cardinality(movies) = Cardinality(last.before)
             /\ \A q \in last.before :
                   ~(q.id = last.id /\ q.version = last.version) => q \in movies

\* C17 happens: of two rows, the one inserted before the clock ticked was
\* updated after it.
C17_Witness ==
    /\ last.op = "Update"
    /\ last.err = ErrNone
    /\ Cardinality(movies) = 2
    /\ \E r \in movies : r.id = last.id /\ r.created_at < now

\* C18: an Update that returns an error, ErrEditConflict or an error of the
\* store, has written nothing into the caller's Movie, whose version is still
\* the one the caller supplied; the Movie's version is written only by an
\* Update that succeeds.
C18_FailedUpdateLeavesMovie ==
    last.op = "Update"
        => /\ last.err # ErrNone
                => /\ last.scanned = <<>>
                   /\ held[last.caller].ID = last.id
                        => held[last.caller].Version = last.version
           /\ last.scanned # <<>> => last.err = ErrNone

\* C18 happens: an Update of a stored row at its version was rejected by a
\* check constraint, and the caller still holds the version it read.
C18_Witness ==
    /\ UpdateOfCurrentVersion
    /\ last.err = ErrCheck
    /\ last.scanned = <<>>
    /\ held[last.caller].ID = last.id
    /\ held[last.caller].Version = last.version

-----------------------------------------------------------------------------
(* Properties of concurrent Updates of one row, checked under SpecRace *)

\* Every caller has read the same row at the same version and has then
\* called Update with what it read.
RaceIsOver ==
    /\ \A c \in Racers : race[c].at = "done"
    /\ \A c, d \in Racers : race[c].read = race[d].read

\* The callers whose Update succeeded.
RaceWinners == {c \in Racers : race[c].err = ErrNone}

\* Exactly one Update succeeded, every other one returned ErrEditConflict,
\* and the row is stored at the version read + 1 with the fields of the
\* caller whose Update succeeded.
OneUpdateWon ==
    /\ Cardinality(RaceWinners) = 1
    /\ \A c \in Racers \ RaceWinners : race[c].err = ErrEditConflict
    /\ \A w \in RaceWinners :
          \E r \in movies :
             /\ r.id = race[w].read.ID
             /\ r.version = race[w].read.Version + 1
             /\ r.cols.title = race[w].fields[1].Title
             /\ r.cols.overview = race[w].fields[1].Overview
             /\ r.cols.language = race[w].fields[1].Language
             /\ r.cols.release_date.year = race[w].fields[1].ReleaseDate.year
             /\ r.cols.rating = race[w].fields[1].Rating
             /\ r.cols.poster_url = race[w].fields[1].PosterURL
             /\ r.cols.backdrop_url = race[w].fields[1].BackdropURL
             /\ r.cols.genres = race[w].fields[1].Genres.a

\* C15 as stated: when every caller has read the same row at version v and
\* called Update with version v, exactly one Update succeeded, the others
\* returned ErrEditConflict, and the row has version v + 1 and the fields of
\* the successful caller.
C15_Original == RaceIsOver => OneUpdateWon

\* The fields every caller of the race supplied pass the constraints of the
\* table.
RaceFieldsPassConstraints ==
    \A c \in Racers :
        /\ ~race[c].fields[1].Genres.isNil
        /\ Len(race[c].fields[1].Genres.a) <= MaxGenres
        /\ race[c].fields[1].ReleaseDate.year >= MinReleaseYear
        /\ race[c].fields[1].ReleaseDate.year <= YearOf(now)

\* C15 (amended): when every caller has read the same row at version v and
\* called Update with version v and with fields that pass the constraints of
\* the table, exactly one Update succeeded, the others returned
\* ErrEditConflict, and the row has version v + 1 and the fields of the
\* successful caller.
C15_NoLostUpdate ==
    (RaceIsOver /\ RaceFieldsPassConstraints) => OneUpdateWon

\* C15 happens: three callers read a row at version 2 and called Update with
\* different titles; the first title is stored, at version 3.
C15_Witness ==
    /\ RaceIsOver
    /\ RaceFieldsPassConstraints
    /\ \A c \in Racers : race[c].read.Version = 2
    /\ \E c, d \in Racers : race[c].fields[1].Title # race[d].fields[1].Title
    /\ \E r \in movies : r.id = race["c1"].read.ID /\ r.version = 3

-----------------------------------------------------------------------------
(* Properties of the methods in time, checked under SpecTimeout *)

\* A call that returned has released its context, if it made one; and a call
\* that was given up, because its context was done, returned one of the
\* errors of a done context, which is neither ErrRecordNotFound nor
\* ErrEditConflict.
ReturnedCallIsReleased ==
    \A c \in TimedCallers :
        calls[c].at = "returned"
            => /\ calls[c].ctx.state \in {"none", "released"}
               /\ calls[c].cause = "timeout"
                    => /\ calls[c].err \in TimeoutErrors
                       /\ calls[c].err \notin {ErrRecordNotFound, ErrEditConflict}

\* C16: every call of Insert, Get, GetAll, Update and Delete that waits for
\* the store returns in the end, whether the store answers or not; a call
\* that is given up returns a timeout error, not ErrRecordNotFound or
\* ErrEditConflict, and every call that returned has released its context.
C16_EveryCallReturns ==
    /\ []ReturnedCallIsReleased
    /\ \A c \in TimedCallers :
          \A o \in {"Insert", "Get", "GetAll", "Update", "Delete"} :
             (calls[c].at = "waiting" /\ calls[c].op = o)
                 ~> (calls[c].at = "returned" /\ calls[c].op = o)

\* C16 happens: an Update of a stored row at its version was given up and
\* returned a timeout error, with its context released and the row as it was.
C16_Witness ==
    /\ calls["c1"].at = "returned"
    /\ calls["c1"].op = "Update"
    /\ calls["c1"].cause = "timeout"
    /\ calls["c1"].ctx.state = "released"
    /\ \E r \in movies :
          r.id = calls["c1"].m.ID /\ r.version = calls["c1"].m.Version

-----------------------------------------------------------------------------
(* Properties of MovieModel.GetAll, checked under SpecQuery (C7 to C9) and   *)
(* under SpecFaults (C11)                                                   *)

\* The last call was a GetAll that returned no error for a valid page and
\* page size.
GetAllSucceeded ==
    /\ last.op = "GetAll"
    /\ last.err = ErrNone
    /\ last.filters.Page >= 1
    /\ last.filters.PageSize >= 1

\* The stored movies that match a title query and a genre filter as sections
\* 4.2 and 8 of the specification say: an empty query and an empty filter
\* match every movie.
SpecMatching(title, genres) ==
    {r \in movies :
        /\ title = "" \/ (Lexemes(title) # {}
                          /\ Lexemes(title) \subseteq Lexemes(r.cols.title))
        /\ Len(genres.a) = 0 \/ Elems(genres.a) \subseteq Elems(r.cols.genres)}

\* C7: the total record count of a successful GetAll is the number of stored
\* movies that match, and the Metadata is all-zero only when that is zero
\* (stated for the calls whose genre filter is not nil).
C7_TotalIsNumberOfMatches ==
    (GetAllSucceeded /\ ~last.genres.isNil)
        => /\ last.metadata.TotalRecords
                = Cardinality(SpecMatching(last.title, last.genres))
           /\ last.metadata = ZeroMetadata
                => Cardinality(SpecMatching(last.title, last.genres)) = 0

\* C8: a successful GetAll returns the matching movies at the positions
\* offset + 1 .. offset + limit of the order by sort column and direction,
\* then id, where an empty title query and an empty genre filter match every
\* movie.
C8_ReturnsTheWindowOfTheMatches ==
    GetAllSucceeded
        => LET matching == SpecMatching(last.title, last.genres)
               column == TrimMinus(last.filters.Sort)
               desc == HasMinus(last.filters.Sort)
               off == (last.filters.Page - 1) * last.filters.PageSize
               \* the number of matching movies ordered before r
               rank(r) == Cardinality({q \in matching :
                              \/ ~desc /\ SortKey(q, column) < SortKey(r, column)
                              \/ desc /\ SortKey(q, column) > SortKey(r, column)
                              \/ /\ SortKey(q, column) = SortKey(r, column)
                                 /\ q.id < r.id})
               inWindow == {r \in matching :
                              off <= rank(r)
                              /\ rank(r) < off + last.filters.PageSize}
           IN /\ ~last.movies.isNil
              /\ Len(last.movies.a) = Cardinality(inWindow)
              /\ \A r \in inWindow :
                    last.movies.a[rank(r) - off + 1] = ScanMovie(r)

\* C9: a sort value whose name, stripped of a leading "-", is not in the
\* safe-list is a violation of field sort for validate, and GetAll with it
\* panics without sending a statement; the ORDER BY column of every statement
\* GetAll sends is in the safe-list.
C9_UnsafeSortNeverReachesTheStore ==
    last.op = "GetAll"
        => /\ TrimMinus(last.filters.Sort) \notin last.filters.SortSafelist
                => /\ "sort" \in ValidateFilters(last.filters)
                   /\ last.err = ErrPanic
                   /\ last.roundTrips = 0
           /\ last.roundTrips > 0
                => /\ Len(last.orderBy) = 1
                   /\ last.orderBy[1] \in last.filters.SortSafelist

\* C9 happens: GetAll was called with the sort value "-runtime" on a table
\* that holds a row.
C9_Witness ==
    /\ last.op = "GetAll"
    /\ last.filters.Sort = "-runtime"
    /\ last.err = ErrPanic
    /\ movies # {}

\* C11: a GetAll that returns an error (from the execution of the statement,
\* from Scan of a row or from the iteration) returns a nil slice of movies and
\* the zero Metadata; a GetAll that returns no error returns a slice that is
\* not nil, and that is empty when no stored movie matches.
C11_NoPartialResults ==
    last.op = "GetAll"
        => /\ last.err \notin {ErrNone, ErrPanic}
                => last.movies.isNil /\ last.metadata = ZeroMetadata
           /\ last.err = ErrNone
                => /\ ~last.movies.isNil
                   /\ Matching(last.title, last.genres) = {}
                        => last.movies.a = <<>>

\* C11 happens: the iteration over two matching rows ended with an error, and
\* nothing was returned.
C11_Witness ==
    /\ last.op = "GetAll"
    /\ last.err = ErrRows
    /\ Cardinality(Matching(last.title, last.genres)) = 2
    /\ last.filters.PageSize = 2
    /\ last.filters.Page = 1
    /\ last.movies.isNil

-----------------------------------------------------------------------------
(* Properties of calculateMetadata, checked under SpecMetadata *)

\* C12: calculateMetadata(totalRecords, page, pageSize) is the all-zero
\* Metadata when totalRecords = 0, whatever page and pageSize are; otherwise
\* its CurrentPage is page, its PageSize pageSize, its FirstPage 1, its
\* TotalRecords totalRecords and its LastPage the least number of pages of
\* pageSize records that hold totalRecords records; for (17, 2, 5) LastPage
\* is 4.
C12_MetadataOfTotalPageAndSize ==
    last.op = "calculateMetadata"
        => /\ last.totalRecords = 0
                => /\ last.metadata.CurrentPage = 0
                   /\ last.metadata.PageSize = 0
                   /\ last.metadata.FirstPage = 0
                   /\ last.metadata.LastPage = 0
                   /\ last.metadata.TotalRecords = 0
           /\ last.totalRecords # 0
                => /\ last.metadata.CurrentPage = last.page
                   /\ last.metadata.PageSize = last.pageSize
                   /\ last.metadata.FirstPage = 1
                   /\ last.metadata.TotalRecords = last.totalRecords
                   /\ last.metadata.LastPage * last.pageSize >= last.totalRecords
                   /\ (last.metadata.LastPage - 1) * last.pageSize
                         < last.totalRecords
           /\ (last.totalRecords = 17 /\ last.page = 2 /\ last.pageSize = 5)
                => last.metadata.FirstPage = 1 /\ last.metadata.LastPage = 4

\* C12 happens: calculateMetadata(17, 2, 5) returned LastPage 4.
C12_Witness ==
    /\ last.op = "calculateMetadata"
    /\ last.totalRecords = 17
    /\ last.page = 2
    /\ last.pageSize = 5
    /\ last.metadata.LastPage = 4

====
